---- MODULE Spec2Model ----
(***************************************************************************)
(* Shared-counter thread examples of rust-thread-safety.                   *)
(*                                                                         *)
(*   rust-working-example/alt_concurrent.rs  Arc<AtomicUsize>, fetch_add   *)
(*   rust-working-example/concurrent.rs      Arc<Mutex<Counter>>           *)
(*   rust-intermediate-attempts/concurrent2.rs   u32 moved into each closure *)
(*   rust-intermediate-attempts/concurrent0.rs   u32 borrowed, no locking  *)
(*                                                                         *)
(* main spawns NTHREADS workers, each runs NITERATIONS increments, main    *)
(* joins the children in spawn order (discarding each join result) and     *)
(* then reads and prints the counter.                                      *)
(*                                                                         *)
(* The two statics are 10 and 1_000_000 in the sources; here they are      *)
(* drawn from 0..MaxThreads and 0..MaxIterations.  The counter is a u32    *)
(* (usize for the atomic); NTHREADS * NITERATIONS stays far below 2^32, so *)
(* the addition never reaches the wrap-around and is modelled as v + 1.    *)
(***************************************************************************)
EXTENDS Integers, FiniteSets, Sequences, TLC

MaxThreads == 3

MaxIterations == 2

VARIABLES
    variant,      \* which program runs: "atomic", "mutex", "copied", "naive"
    NTHREADS,     \* static NTHREADS
    NITERATIONS,  \* static NITERATIONS
    val,          \* the shared counter (AtomicUsize / Counter.val)
    holder,       \* thread that owns the MutexGuard, or NoHolder
    poisoned,     \* the Mutex poison flag
    pc,           \* position of each worker thread
    iter,         \* per worker: loop iterations finished
    tmp,          \* per worker: value read by `self.val += 1` before the store
    mainpc,       \* position of main
    spawned,      \* children pushed so far (length of `children`)
    joined,       \* children joined so far
    printed,      \* the value main printed, or NoValue
    rpc,          \* position of the concurrent reader
    observed,     \* last value the concurrent reader got, or NoValue
    strong,       \* Arc strong count of the counter storage; 0 = destroyed
    copy          \* concurrent2.rs: the counter captured by each closure

vars == <<variant, NTHREADS, NITERATIONS, val, holder, poisoned, pc, iter, tmp,
          mainpc, spawned, joined, printed, rpc, observed, strong, copy>>

Variants == {"atomic", "mutex"}

\* the intermediate attempts: "copied" is concurrent2.rs, "naive" concurrent0.rs
Attempts == {"copied", "naive"}

Workers == 1..MaxThreads

MainThread == 0

ReaderThread == MaxThreads + 1

NoHolder == -1

NoValue == -1

----------------------------------------------------------------------------
(* Pure helpers *)

\* mutant: the increment adds twice
increment_twice(v) == v + 2

\* Counter::increment_counter: self.val += 1
increment_counter(v) == v + 1

\* mutant: the cell is decremented
fetch_sub(v, d) == v - d

\* AtomicUsize::fetch_add(d, SeqCst): the new value of the cell
fetch_add(v, d) == v + d

\* mutant: an inclusive range, 0..=NITERATIONS
LoopContinuesInclusive(t) == iter[t] <= NITERATIONS

\* for _ in 0..NITERATIONS : the range still yields an item
LoopContinues(t) == iter[t] < NITERATIONS

\* mutant: a lock that never excludes anybody
CanLockAlways == TRUE

\* Mutex::lock blocks until nobody owns the guard
CanLock == holder = NoHolder

\* a worker thread has terminated, normally or by panic
Terminated(t) == pc[t] \in {"done", "fault", "poison"}

\* a worker thread terminated by panic
Failed(t) == pc[t] \in {"fault", "poison"}

\* mutant: join returns without waiting for the child
JoinNoWait(c) == TRUE

\* JoinHandle::join returns once the child has terminated
JoinReady(c) == Terminated(c)

\* mutant: workers wait at a start barrier until main has spawned them all
MayRunAfterBarrier(t) == pc[t] = "loop" /\ mainpc # "spawn"

\* the worker closure may start running as soon as thread::spawn created it
MayRun(t) == pc[t] = "loop"

\* mutant: the guard is never released
GuardKept(t) == t

\* dropping the MutexGuard (normal drop or unwinding) releases the lock
GuardDropped(t) == NoHolder

\* Arc::clone: one more strong reference to the same storage
ArcClone(s) == s + 1

\* drop of an Arc: one strong reference less; the storage is freed at 0
ArcDrop(s) == s - 1

RECURSIVE SumIter(_)
SumIter(k) == IF k = 0 THEN 0 ELSE iter[k] + SumIter(k - 1)

\* loop iterations finished so far by all workers
Completed == SumIter(MaxThreads)

AnyFailed == \E t \in Workers : Failed(t)

----------------------------------------------------------------------------
Init ==
    /\ variant \in Variants
    /\ NTHREADS \in 0..MaxThreads
    /\ NITERATIONS \in 0..MaxIterations
    /\ val = 0
    /\ holder = NoHolder
    /\ poisoned = FALSE
    /\ pc = [t \in Workers |-> "unspawned"]
    /\ iter = [t \in Workers |-> 0]
    /\ tmp = [t \in Workers |-> 0]
    /\ mainpc = "spawn"
    /\ spawned = 0
    /\ joined = 0
    /\ printed = NoValue
    /\ rpc = "idle"
    /\ observed = NoValue
    /\ strong = 1
    /\ copy = [t \in Workers |-> 0]

----------------------------------------------------------------------------
(* main *)

\* mutant: the closure gets the handle without Arc::clone counting it
SpawnNoClone ==
    /\ mainpc = "spawn"
    /\ spawned < NTHREADS
    /\ spawned' = spawned + 1
    /\ pc' = [pc EXCEPT ![spawned + 1] = "loop"]
    /\ UNCHANGED <<variant, NTHREADS, NITERATIONS, val, holder, poisoned, iter,
                   tmp, mainpc, joined, printed, rpc, observed, strong, copy>>

\* for _ in 0..NTHREADS { let counter = Arc::clone(&counter);
\*                       children.push(thread::spawn(...)) }
Spawn ==
    /\ mainpc = "spawn"
    /\ spawned < NTHREADS
    /\ spawned' = spawned + 1
    /\ pc' = [pc EXCEPT ![spawned + 1] = "loop"]
    /\ UNCHANGED <<variant, NTHREADS, NITERATIONS, val, holder, poisoned, iter,
                   tmp, mainpc, joined, printed, rpc, observed>>
    /\ strong' = ArcClone(strong)
    /\ UNCHANGED copy

\* the spawn loop is exhausted
SpawnLoopExit ==
    /\ mainpc = "spawn"
    /\ spawned = NTHREADS
    /\ mainpc' = "join"
    /\ UNCHANGED <<variant, NTHREADS, NITERATIONS, val, holder, poisoned, pc,
                   iter, tmp, spawned, joined, printed, rpc, observed>>
    /\ UNCHANGED <<strong, copy>>

\* for child in children { let _ = child.join(); }  -- the result is dropped
Join ==
    /\ mainpc = "join"
    /\ joined < spawned
    /\ JoinReady(joined + 1)
    /\ joined' = joined + 1
    /\ UNCHANGED <<variant, NTHREADS, NITERATIONS, val, holder, poisoned, pc,
                   iter, tmp, mainpc, spawned, printed, rpc, observed>>
    /\ UNCHANGED <<strong, copy>>

\* mutant: main leaves the join loop without having joined every child
JoinLoopExitEarly ==
    /\ mainpc = "join"
    /\ mainpc' = "read"
    /\ UNCHANGED <<variant, NTHREADS, NITERATIONS, val, holder, poisoned, pc,
                   iter, tmp, spawned, joined, printed, rpc, observed>>
    /\ UNCHANGED <<strong, copy>>

\* the join loop is exhausted
JoinLoopExit ==
    /\ mainpc = "join"
    /\ joined = spawned
    /\ mainpc' = "read"
    /\ UNCHANGED <<variant, NTHREADS, NITERATIONS, val, holder, poisoned, pc,
                   iter, tmp, spawned, joined, printed, rpc, observed>>
    /\ UNCHANGED <<strong, copy>>

\* mutant: the final read takes the value out of the cell (swap(0))
PrintAtomicSwap ==
    /\ variant = "atomic"
    /\ mainpc = "read"
    /\ printed' = val
    /\ val' = 0
    /\ mainpc' = "printed"
    /\ UNCHANGED <<variant, NTHREADS, NITERATIONS, holder, poisoned, pc, iter,
                   tmp, spawned, joined, rpc, observed, strong, copy>>

\* alt_concurrent.rs: println!("{:?}", counter)
PrintAtomic ==
    /\ variant = "atomic"
    /\ mainpc = "read"
    /\ printed' = val
    /\ mainpc' = "printed"
    /\ UNCHANGED <<variant, NTHREADS, NITERATIONS, val, holder, poisoned, pc,
                   iter, tmp, spawned, joined, rpc, observed>>
    /\ UNCHANGED <<strong, copy>>

\* mutant: main reads through a lock of its own, not the workers' lock
MainLockNoWait ==
    /\ variant = "mutex"
    /\ mainpc = "read"
    /\ ~poisoned
    /\ holder' = MainThread
    /\ mainpc' = "locked"
    /\ UNCHANGED <<variant, NTHREADS, NITERATIONS, val, poisoned, pc, iter, tmp,
                   spawned, joined, printed, rpc, observed, strong, copy>>

\* concurrent.rs: counter.lock() returns Ok(guard)
MainLock ==
    /\ variant = "mutex"
    /\ mainpc = "read"
    /\ CanLock
    /\ ~poisoned
    /\ holder' = MainThread
    /\ mainpc' = "locked"
    /\ UNCHANGED <<variant, NTHREADS, NITERATIONS, val, poisoned, pc, iter, tmp,
                   spawned, joined, printed, rpc, observed>>
    /\ UNCHANGED <<strong, copy>>

\* concurrent.rs: counter.lock() returns Err(PoisonError), unwrap() panics;
\* unwinding main drops its Arc
MainLockPoisoned ==
    /\ variant = "mutex"
    /\ mainpc = "read"
    /\ CanLock
    /\ poisoned
    /\ mainpc' = "poison"
    /\ UNCHANGED <<variant, NTHREADS, NITERATIONS, val, holder, poisoned, pc,
                   iter, tmp, spawned, joined, printed, rpc, observed>>
    /\ strong' = ArcDrop(strong)
    /\ UNCHANGED copy

\* concurrent.rs: println!("{}", guard.val); the temporary guard is dropped
PrintMutex ==
    /\ variant = "mutex"
    /\ mainpc = "locked"
    /\ printed' = val
    /\ holder' = GuardDropped(MainThread)
    /\ mainpc' = "printed"
    /\ UNCHANGED <<variant, NTHREADS, NITERATIONS, val, poisoned, pc, iter, tmp,
                   spawned, joined, rpc, observed>>
    /\ UNCHANGED <<strong, copy>>

\* end of main: the Arc owned by main is dropped
MainReturn ==
    /\ mainpc = "printed"
    /\ variant \in Variants
    /\ mainpc' = "exited"
    /\ strong' = ArcDrop(strong)
    /\ UNCHANGED <<variant, NTHREADS, NITERATIONS, val, holder, poisoned, pc,
                   iter, tmp, spawned, joined, printed, rpc, observed, copy>>

MainStep ==
    \/ Spawn
    \/ SpawnLoopExit
    \/ Join
    \/ JoinLoopExit
    \/ PrintAtomic
    \/ MainLock
    \/ MainLockPoisoned
    \/ PrintMutex
    \/ MainReturn

----------------------------------------------------------------------------
(* worker closure *)

\* alt_concurrent.rs: counter.fetch_add(1, Ordering::SeqCst), one loop iteration
FetchAdd(t) ==
    /\ variant = "atomic"
    /\ MayRun(t)
    /\ LoopContinues(t)
    /\ val' = fetch_add(val, 1)
    /\ iter' = [iter EXCEPT ![t] = @ + 1]
    /\ UNCHANGED <<variant, NTHREADS, NITERATIONS, holder, poisoned, pc, tmp,
                   mainpc, spawned, joined, printed, rpc, observed>>
    /\ UNCHANGED <<strong, copy>>

\* concurrent.rs: counter.lock() returns Ok(guard)
Lock(t) ==
    /\ variant = "mutex"
    /\ MayRun(t)
    /\ LoopContinues(t)
    /\ CanLock
    /\ ~poisoned
    /\ holder' = t
    /\ pc' = [pc EXCEPT ![t] = "read"]
    /\ UNCHANGED <<variant, NTHREADS, NITERATIONS, val, poisoned, iter, tmp,
                   mainpc, spawned, joined, printed, rpc, observed>>
    /\ UNCHANGED <<strong, copy>>

\* concurrent.rs: counter.lock() returns Err(PoisonError), unwrap() panics and
\* the guard inside the error is dropped by the unwinding
LockPoisoned(t) ==
    /\ variant = "mutex"
    /\ MayRun(t)
    /\ LoopContinues(t)
    /\ CanLock
    /\ poisoned
    /\ pc' = [pc EXCEPT ![t] = "poison"]
    /\ UNCHANGED <<variant, NTHREADS, NITERATIONS, val, holder, poisoned, iter,
                   tmp, mainpc, spawned, joined, printed, rpc, observed>>
    /\ strong' = ArcDrop(strong)
    /\ UNCHANGED copy

\* increment_counter: the load of self.val
Read(t) ==
    /\ variant = "mutex"
    /\ pc[t] = "read"
    /\ tmp' = [tmp EXCEPT ![t] = val]
    /\ pc' = [pc EXCEPT ![t] = "write"]
    /\ UNCHANGED <<variant, NTHREADS, NITERATIONS, val, holder, poisoned, iter,
                   mainpc, spawned, joined, printed, rpc, observed>>
    /\ UNCHANGED <<strong, copy>>

\* increment_counter: the store of self.val; the temporary is dead afterwards
Write(t) ==
    /\ variant = "mutex"
    /\ pc[t] = "write"
    /\ val' = increment_counter(tmp[t])
    /\ tmp' = [tmp EXCEPT ![t] = 0]
    /\ pc' = [pc EXCEPT ![t] = "unlock"]
    /\ UNCHANGED <<variant, NTHREADS, NITERATIONS, holder, poisoned, iter,
                   mainpc, spawned, joined, printed, rpc, observed>>
    /\ UNCHANGED <<strong, copy>>

\* mutant: the guard is leaked (mem::forget), the lock stays taken
UnlockLeaksGuard(t) ==
    /\ variant = "mutex"
    /\ pc[t] = "unlock"
    /\ iter' = [iter EXCEPT ![t] = @ + 1]
    /\ pc' = [pc EXCEPT ![t] = "loop"]
    /\ UNCHANGED <<variant, NTHREADS, NITERATIONS, val, holder, poisoned, tmp,
                   mainpc, spawned, joined, printed, rpc, observed>>
    /\ UNCHANGED <<strong, copy>>

\* end of the statement: the temporary MutexGuard is dropped, the iteration ends
Unlock(t) ==
    /\ variant = "mutex"
    /\ pc[t] = "unlock"
    /\ holder' = GuardDropped(t)
    /\ iter' = [iter EXCEPT ![t] = @ + 1]
    /\ pc' = [pc EXCEPT ![t] = "loop"]
    /\ UNCHANGED <<variant, NTHREADS, NITERATIONS, val, poisoned, tmp, mainpc,
                   spawned, joined, printed, rpc, observed>>
    /\ UNCHANGED <<strong, copy>>

\* mutant: the closure returns before the range is exhausted
ReturnEarly(t) ==
    /\ pc[t] = "loop"
    /\ pc' = [pc EXCEPT ![t] = "done"]
    /\ strong' = IF variant \in Variants THEN ArcDrop(strong) ELSE strong
    /\ UNCHANGED <<variant, NTHREADS, NITERATIONS, val, holder, poisoned, iter,
                   tmp, mainpc, spawned, joined, printed, rpc, observed, copy>>

\* the range is exhausted, the closure returns and drops what it captured
Return(t) ==
    /\ pc[t] = "loop"
    /\ ~LoopContinues(t)
    /\ pc' = [pc EXCEPT ![t] = "done"]
    /\ UNCHANGED <<variant, NTHREADS, NITERATIONS, val, holder, poisoned, iter,
                   tmp, mainpc, spawned, joined, printed, rpc, observed>>
    /\ strong' = IF variant \in Variants THEN ArcDrop(strong) ELSE strong
    /\ UNCHANGED copy

\* mutant: the panicking thread dies without unwinding, so a held guard is
\* never dropped and the lock stays taken
PanicNoUnwind(t) ==
    /\ \/ pc[t] = "loop" /\ LoopContinues(t)
       \/ pc[t] \in {"read", "write"}
    /\ pc' = [pc EXCEPT ![t] = "fault"]
    /\ tmp' = [tmp EXCEPT ![t] = 0]
    /\ UNCHANGED <<variant, NTHREADS, NITERATIONS, val, holder, poisoned, iter,
                   mainpc, spawned, joined, printed, rpc, observed>>
    /\ UNCHANGED <<strong, copy>>

\* the worker terminates abnormally before completing its increments: between
\* two increments, or inside increment_counter before the store.  Unwinding
\* drops a held MutexGuard, which poisons the mutex and releases it, and the
\* Arc the closure captured.
Panic(t) ==
    /\ \/ pc[t] = "loop" /\ LoopContinues(t)
       \/ pc[t] \in {"read", "write"}
    /\ pc' = [pc EXCEPT ![t] = "fault"]
    /\ tmp' = [tmp EXCEPT ![t] = 0]
    /\ IF holder = t
          THEN /\ poisoned' = TRUE
               /\ holder' = GuardDropped(t)
          ELSE UNCHANGED <<poisoned, holder>>
    /\ UNCHANGED <<variant, NTHREADS, NITERATIONS, val, iter, mainpc,
                   spawned, joined, printed, rpc, observed>>
    /\ strong' = ArcDrop(strong)
    /\ UNCHANGED copy

WorkerStep(t) ==
    \/ FetchAdd(t)
    \/ Lock(t)
    \/ LockPoisoned(t)
    \/ Read(t)
    \/ Write(t)
    \/ Unlock(t)
    \/ Return(t)

----------------------------------------------------------------------------
(* a reader thread calling get while the run is in progress; it reads the  *)
(* counter the way main does                                                *)

\* atomic: a load of the cell
GetAtomic ==
    /\ variant = "atomic"
    /\ rpc = "idle"
    /\ observed' = val
    /\ UNCHANGED <<variant, NTHREADS, NITERATIONS, val, holder, poisoned, pc,
                   iter, tmp, mainpc, spawned, joined, printed, rpc>>
    /\ UNCHANGED <<strong, copy>>

\* mutex: counter.lock() returns Ok(guard)
GetLock ==
    /\ variant = "mutex"
    /\ rpc = "idle"
    /\ CanLock
    /\ ~poisoned
    /\ holder' = ReaderThread
    /\ rpc' = "locked"
    /\ UNCHANGED <<variant, NTHREADS, NITERATIONS, val, poisoned, pc, iter, tmp,
                   mainpc, spawned, joined, printed, observed>>
    /\ UNCHANGED <<strong, copy>>

\* mutex: counter.lock() returns Err(PoisonError), unwrap() panics
GetLockPoisoned ==
    /\ variant = "mutex"
    /\ rpc = "idle"
    /\ CanLock
    /\ poisoned
    /\ rpc' = "poison"
    /\ UNCHANGED <<variant, NTHREADS, NITERATIONS, val, holder, poisoned, pc,
                   iter, tmp, mainpc, spawned, joined, printed, observed>>
    /\ UNCHANGED <<strong, copy>>

\* mutex: guard.val is read and the guard dropped
GetRead ==
    /\ variant = "mutex"
    /\ rpc = "locked"
    /\ observed' = val
    /\ holder' = GuardDropped(ReaderThread)
    /\ rpc' = "idle"
    /\ UNCHANGED <<variant, NTHREADS, NITERATIONS, val, poisoned, pc, iter, tmp,
                   mainpc, spawned, joined, printed>>
    /\ UNCHANGED <<strong, copy>>

ReaderStep ==
    \/ GetAtomic
    \/ GetLock
    \/ GetLockPoisoned
    \/ GetRead

----------------------------------------------------------------------------
Next ==
    \/ MainStep
    \/ \E t \in Workers : WorkerStep(t)
    \/ \E t \in Workers : Panic(t)

Spec == Init /\ [][Next]_vars

\* threads are scheduled fairly; nothing forces a fault to happen
Fairness ==
    /\ WF_vars(MainStep)
    /\ \A t \in Workers : WF_vars(WorkerStep(t))

FairSpec == Spec /\ Fairness

NextReader ==
    \/ Next
    \/ ReaderStep

ReaderSpec == Init /\ [][NextReader]_vars

----------------------------------------------------------------------------
(* the intermediate attempts: a plain u32 and no synchronisation.           *)
(* concurrent2.rs moves the counter into each closure; u32 is Copy, so      *)
(* every closure owns a copy.  concurrent0.rs lets every closure use main's *)
(* counter directly: `counter += 1` is a load, an add and a store, and the  *)
(* racing threads interleave them freely.                                   *)

\* mutant: the addition adds twice
add_assign_twice(v) == v + 2

\* counter += 1
add_assign(v) == v + 1

InitAttempts ==
    /\ variant \in Attempts
    /\ NTHREADS \in 0..MaxThreads
    /\ NITERATIONS \in 0..MaxIterations
    /\ val = 0
    /\ holder = NoHolder
    /\ poisoned = FALSE
    /\ pc = [t \in Workers |-> "unspawned"]
    /\ iter = [t \in Workers |-> 0]
    /\ tmp = [t \in Workers |-> 0]
    /\ mainpc = "spawn"
    /\ spawned = 0
    /\ joined = 0
    /\ printed = NoValue
    /\ rpc = "idle"
    /\ observed = NoValue
    /\ strong = 0
    /\ copy = [t \in Workers |-> 0]

\* children.push(thread::spawn(move || ...)): the closure takes a copy of the
\* counter (concurrent2.rs) or refers to main's counter (concurrent0.rs)
SpawnAttempt ==
    /\ variant \in Attempts
    /\ mainpc = "spawn"
    /\ spawned < NTHREADS
    /\ spawned' = spawned + 1
    /\ pc' = [pc EXCEPT ![spawned + 1] = "loop"]
    /\ copy' = IF variant = "copied"
                  THEN [copy EXCEPT ![spawned + 1] = val]
                  ELSE copy
    /\ UNCHANGED <<variant, NTHREADS, NITERATIONS, val, holder, poisoned, iter,
                   tmp, mainpc, joined, printed, rpc, observed, strong>>

\* println!("{}", counter): main's own counter
PrintPlain ==
    /\ variant \in Attempts
    /\ mainpc = "read"
    /\ printed' = val
    /\ mainpc' = "printed"
    /\ UNCHANGED <<variant, NTHREADS, NITERATIONS, val, holder, poisoned, pc,
                   iter, tmp, spawned, joined, rpc, observed, strong, copy>>

\* mutant: the closure increments main's counter instead of its copy
CopyIncrementShared(t) ==
    /\ variant = "copied"
    /\ MayRun(t)
    /\ LoopContinues(t)
    /\ val' = add_assign(val)
    /\ iter' = [iter EXCEPT ![t] = @ + 1]
    /\ UNCHANGED <<variant, NTHREADS, NITERATIONS, holder, poisoned, pc, tmp,
                   mainpc, spawned, joined, printed, rpc, observed, strong, copy>>

\* concurrent2.rs: counter += 1 on the closure's own copy
CopyIncrement(t) ==
    /\ variant = "copied"
    /\ MayRun(t)
    /\ LoopContinues(t)
    /\ copy' = [copy EXCEPT ![t] = add_assign(@)]
    /\ iter' = [iter EXCEPT ![t] = @ + 1]
    /\ UNCHANGED <<variant, NTHREADS, NITERATIONS, val, holder, poisoned, pc,
                   tmp, mainpc, spawned, joined, printed, rpc, observed, strong>>

\* concurrent0.rs: counter += 1, the load
NaiveRead(t) ==
    /\ variant = "naive"
    /\ MayRun(t)
    /\ LoopContinues(t)
    /\ tmp' = [tmp EXCEPT ![t] = val]
    /\ pc' = [pc EXCEPT ![t] = "write"]
    /\ UNCHANGED <<variant, NTHREADS, NITERATIONS, val, holder, poisoned, iter,
                   mainpc, spawned, joined, printed, rpc, observed, strong, copy>>

\* concurrent0.rs: counter += 1, the store; the iteration ends
NaiveWrite(t) ==
    /\ variant = "naive"
    /\ pc[t] = "write"
    /\ val' = add_assign(tmp[t])
    /\ tmp' = [tmp EXCEPT ![t] = 0]
    /\ iter' = [iter EXCEPT ![t] = @ + 1]
    /\ pc' = [pc EXCEPT ![t] = "loop"]
    /\ UNCHANGED <<variant, NTHREADS, NITERATIONS, holder, poisoned, mainpc,
                   spawned, joined, printed, rpc, observed, strong, copy>>

\* the worker terminates abnormally before completing its increments
PanicAttempt(t) ==
    /\ variant \in Attempts
    /\ \/ pc[t] = "loop" /\ LoopContinues(t)
       \/ pc[t] = "write"
    /\ pc' = [pc EXCEPT ![t] = "fault"]
    /\ tmp' = [tmp EXCEPT ![t] = 0]
    /\ UNCHANGED <<variant, NTHREADS, NITERATIONS, val, holder, poisoned, iter,
                   mainpc, spawned, joined, printed, rpc, observed, strong, copy>>

NextAttempts ==
    \/ SpawnAttempt
    \/ SpawnLoopExit
    \/ Join
    \/ JoinLoopExit
    \/ PrintPlain
    \/ \E t \in Workers : CopyIncrement(t)
    \/ \E t \in Workers : NaiveRead(t)
    \/ \E t \in Workers : NaiveWrite(t)
    \/ \E t \in Workers : Return(t)
    \/ \E t \in Workers : PanicAttempt(t)

AttemptSpec == InitAttempts /\ [][NextAttempts]_vars

----------------------------------------------------------------------------
TypeOK ==
    /\ variant \in Variants \cup Attempts
    /\ NTHREADS \in 0..MaxThreads
    /\ NITERATIONS \in 0..MaxIterations
    /\ val \in Nat
    /\ holder \in Workers \cup {MainThread, ReaderThread, NoHolder}
    /\ poisoned \in BOOLEAN
    /\ pc \in [Workers -> {"unspawned", "loop", "read", "write", "unlock",
                           "done", "fault", "poison"}]
    /\ iter \in [Workers -> Nat]
    /\ tmp \in [Workers -> Nat]
    /\ mainpc \in {"spawn", "join", "read", "locked", "printed", "exited",
                  "poison"}
    /\ spawned \in 0..MaxThreads
    /\ joined \in 0..MaxThreads
    /\ printed \in Nat \cup {NoValue}
    /\ rpc \in {"idle", "locked", "poison"}
    /\ observed \in Nat \cup {NoValue}
    /\ strong \in 0..(MaxThreads + 1)
    /\ copy \in [Workers -> Nat]

----------------------------------------------------------------------------
\* what a run is expected to count
Expected == NTHREADS * NITERATIONS

\* some worker is inside an increment (owns the guard)
InIncrement(t) == pc[t] \in {"read", "write", "unlock"}

\* a worker that has iterations left and is about to lock / fetch_add
Waiting(t) == pc[t] = "loop" /\ LoopContinues(t)

\* C1: exact count -- with at least one worker, a run in which no worker
\* failed ends with main printing NTHREADS * NITERATIONS, in both variants and
\* under every interleaving.
C1_ExactCount ==
    (NTHREADS >= 1 /\ mainpc = "printed" /\ ~AnyFailed) => printed = Expected

C1_Witness ==
    /\ variant = "mutex"
    /\ NTHREADS >= 2
    /\ NITERATIONS >= 2
    /\ mainpc = "printed"
    /\ ~AnyFailed
    /\ printed = Expected

\* C2: no lost or double-counted update -- whenever no worker is inside an
\* increment (atomic: always; mutex: no worker owns the guard) the counter
\* equals the number of increments completed so far by all workers.
C2_NoLostUpdate ==
    (\A t \in Workers : ~InIncrement(t)) => val = Completed

C2_Witness ==
    /\ variant = "mutex"
    /\ holder = NoHolder
    /\ val >= 2
    /\ \E t, u \in Workers : t # u /\ iter[t] >= 1 /\ iter[u] >= 1 /\ Waiting(t)

\* C3: concurrent read safety -- a reader calling get at arbitrary points never
\* observes more than the increments completed so far, never a negative or
\* out-of-range value, and the read main makes after joining all workers
\* equals NTHREADS * NITERATIONS when no worker failed.
C3_ReadSafety ==
    /\ observed # NoValue => observed \in 0..Completed
    /\ observed # NoValue => observed \in 0..Expected
    /\ (mainpc = "printed" /\ ~AnyFailed) => printed = Expected

C3_Witness ==
    /\ variant = "mutex"
    /\ rpc = "idle"
    /\ observed >= 1
    /\ observed < Completed
    /\ mainpc = "join"
    /\ \E t \in Workers : Waiting(t)

\* C4: worker failure is never silent -- if a worker terminated abnormally the
\* run does not end as a success, and a run that ends as a success reports
\* NTHREADS * NITERATIONS.
C4_FailureNeverSilent ==
    mainpc = "printed" => (~AnyFailed /\ printed = Expected)

\* C5: a poisoned lock never hangs -- the lock is never owned by a terminated
\* thread, and once a worker failed while holding the lock every worker that
\* tries to lock and main's final lock end in a PoisonError panic (the program
\* never clears the poison) instead of waiting forever.
C5_PoisonNeverHangs ==
    /\ [](holder \in Workers => ~Terminated(holder))
    /\ \A t \in Workers : (poisoned /\ Waiting(t)) ~> Failed(t)
    /\ (poisoned /\ mainpc = "read") ~> (mainpc = "poison")

C5_Witness ==
    /\ poisoned
    /\ mainpc = "poison"
    /\ \E t, u \in Workers : pc[t] = "fault" /\ pc[u] = "poison"

\* C6: invalid configuration -- a run with zero workers does not complete as a
\* successful run reporting a final value.
C6_ZeroWorkersRejected ==
    NTHREADS = 0 => mainpc # "printed"

\* C7: zero-work edge case -- with at least one worker and zero iterations no
\* worker ever touches the counter or the lock, nothing fails, and the run
\* ends printing 0.
C7_ZeroWork ==
    /\ [](NITERATIONS = 0 /\ NTHREADS >= 1 =>
            /\ val = 0
            /\ holder \notin Workers
            /\ ~poisoned
            /\ \A t \in Workers : pc[t] \in {"unspawned", "loop", "done"}
            /\ mainpc # "poison"
            /\ mainpc \in {"printed", "exited"} => printed = 0)
    /\ (NITERATIONS = 0 /\ NTHREADS >= 1)
          ~> (mainpc \in {"printed", "exited"} /\ printed = 0)

C7_Witness ==
    /\ NITERATIONS = 0
    /\ NTHREADS = MaxThreads
    /\ mainpc = "printed"
    /\ printed = 0
    /\ \A t \in Workers : pc[t] = "done"

\* C8: no starvation under the mutex -- under fair scheduling a worker waiting
\* to lock for an increment is eventually granted the lock, and a worker that
\* was granted the lock completes that increment; the only other way out is
\* that this worker itself terminates abnormally.
C8_NoStarvation ==
    /\ \A t \in Workers :
          (variant = "mutex" /\ Waiting(t)) ~> (holder = t \/ Failed(t))
    /\ \A t \in Workers :
          (variant = "mutex" /\ holder = t)
              ~> ((holder # t /\ pc[t] = "loop") \/ Failed(t))

C8_Witness ==
    /\ variant = "mutex"
    /\ ~AnyFailed
    /\ \E t, u \in Workers :
          /\ t # u
          /\ holder = u
          /\ Waiting(t)
          /\ iter[t] >= 1

\* C9: the atomic strategy never blocks -- in the atomic variant a worker with
\* increments left can always take its next fetch_add step, whatever main and
\* the other workers are doing.
C9_AtomicNeverBlocks ==
    \A t \in Workers :
        (variant = "atomic" /\ pc[t] = "loop" /\ LoopContinues(t))
            => ENABLED FetchAdd(t)

C9_Witness ==
    /\ variant = "atomic"
    /\ mainpc = "spawn"
    /\ \E t, u \in Workers :
          /\ t # u
          /\ pc[t] = "loop" /\ LoopContinues(t) /\ iter[t] >= 1
          /\ pc[u] = "loop" /\ LoopContinues(u)

\* C10: join before final read -- main reaches its final read only after every
\* spawned worker has terminated, successfully or with failure.
C10_JoinBeforeRead ==
    mainpc \in {"read", "locked", "printed", "exited", "poison"} =>
        /\ spawned = NTHREADS
        /\ joined = NTHREADS
        /\ \A t \in 1..NTHREADS : Terminated(t)

C10_Witness ==
    /\ mainpc = "printed"
    /\ NTHREADS >= 2
    /\ \E t, u \in Workers : pc[t] = "done" /\ iter[t] >= 1 /\ pc[u] = "fault"

\* workers that were spawned and have not terminated
Live == {t \in Workers : pc[t] \notin {"unspawned", "done", "fault", "poison"}}

\* main still owns its Arc
MainOwns == mainpc \notin {"exited", "poison"}

\* C11: the copied-counter defect -- in concurrent2.rs every closure increments
\* its own copy, main's counter stays 0, and main prints a value strictly less
\* than NTHREADS * NITERATIONS whenever that product is positive.
C11_CopiedUndercounts ==
    variant = "copied" =>
        /\ val = 0
        /\ \A t \in Workers : copy[t] = iter[t]
        /\ mainpc = "printed" => printed = 0
        /\ (mainpc = "printed" /\ Expected > 0) => printed < Expected

C11_Witness ==
    /\ variant = "copied"
    /\ NTHREADS >= 2
    /\ NITERATIONS >= 2
    /\ ~AnyFailed
    /\ mainpc = "printed"
    /\ printed = 0
    /\ \A t \in 1..NTHREADS : copy[t] = NITERATIONS

\* C12: mutual exclusion under the mutex -- at most one thread (worker, main
\* or reader) owns the guard, so at most one thread is between the load and
\* the store of val, and main's and the reader's get take that same lock.
C12_MutualExclusion ==
    variant = "mutex" =>
        /\ Cardinality({t \in Workers : InIncrement(t)})
             + (IF mainpc = "locked" THEN 1 ELSE 0)
             + (IF rpc = "locked" THEN 1 ELSE 0) <= 1
        /\ \A t \in Workers : InIncrement(t) => holder = t
        /\ mainpc = "locked" => holder = MainThread
        /\ rpc = "locked" => holder = ReaderThread

C12_Witness ==
    /\ variant = "mutex"
    /\ rpc = "idle"
    /\ observed >= 1
    /\ \E t, u \in Workers :
          /\ t # u
          /\ pc[t] = "write"
          /\ holder = t
          /\ Waiting(u)

\* C13: the naive unsynchronised increment loses updates -- with the load and
\* the store of `counter += 1` as separate unsynchronised steps the counter
\* never exceeds the increments performed, and (the witness) with two or more
\* workers and no failure a run can end with main printing strictly less than
\* NTHREADS * NITERATIONS.
C13_NaiveLosesUpdates ==
    variant = "naive" =>
        /\ val <= Completed
        /\ printed # NoValue => printed <= Expected

C13_Witness ==
    /\ variant = "naive"
    /\ NTHREADS >= 2
    /\ NITERATIONS >= 1
    /\ ~AnyFailed
    /\ \A t \in 1..NTHREADS : pc[t] = "done" /\ iter[t] = NITERATIONS
    /\ mainpc = "printed"
    /\ printed < Expected

\* C14: run termination -- under fair scheduling main always reaches the end
\* of the run; it ends by printing the value unless a worker failed, and when
\* no worker failed every worker has finished normally by then.
C14_RunTerminates ==
    /\ <>(mainpc \in {"printed", "poison"})
    /\ [](mainpc = "poison" => AnyFailed)
    /\ []((mainpc = "printed" /\ ~AnyFailed) =>
            \A t \in 1..NTHREADS : pc[t] = "done")

C14_Witness ==
    /\ mainpc = "exited"
    /\ NTHREADS = MaxThreads
    /\ NITERATIONS >= 1
    /\ ~AnyFailed
    /\ printed = Expected
    /\ \A t \in Workers : pc[t] = "done"

\* C15: per-worker work is exact -- a worker's finished-iteration count stays
\* within 0..NITERATIONS and equals NITERATIONS once the worker has returned
\* normally.
C15_WorkerWorkExact ==
    \A t \in Workers :
        /\ iter[t] \in 0..NITERATIONS
        /\ pc[t] = "done" => iter[t] = NITERATIONS
        /\ pc[t] = "unspawned" => iter[t] = 0

C15_Witness ==
    /\ NITERATIONS >= 2
    /\ \E t, u \in Workers :
          /\ pc[t] = "done" /\ iter[t] = NITERATIONS
          /\ pc[u] \in {"loop", "read", "write", "unlock"} /\ iter[u] = 1

\* C16: only increment mutates the counter -- the counter starts at 0, every
\* step of main (spawn, join, final read) and of the reader leaves it
\* unchanged, and it changes only in a worker's fetch_add or in the store of
\* increment_counter made by the guard's owner.
C16_OnlyIncrementMutates ==
    /\ val = 0
    /\ [][(\/ mainpc' # mainpc
           \/ spawned' # spawned
           \/ joined' # joined
           \/ printed' # printed
           \/ rpc' # rpc
           \/ observed' # observed) => val' = val]_vars
    /\ [][val' # val =>
            \E t \in Workers :
                \/ variant = "atomic" /\ pc[t] = "loop"
                                      /\ iter'[t] = iter[t] + 1
                \/ variant = "mutex" /\ holder = t
                                     /\ pc[t] = "write" /\ pc'[t] = "unlock"]_vars

C16_Witness ==
    /\ mainpc = "exited"
    /\ joined >= 2
    /\ observed >= 1
    /\ printed >= 2
    /\ val = printed

\* C17: shared storage outlives the workers -- the strong count is exactly one
\* per live worker plus one for main, the storage is never destroyed while a
\* spawned worker is unjoined, and it is destroyed only after every worker was
\* joined and main has made its final read (or panicked in it).
C17_StorageOutlivesWorkers ==
    /\ strong = Cardinality(Live) + (IF MainOwns THEN 1 ELSE 0)
    /\ joined < spawned => strong > 0
    /\ strong = 0 =>
          /\ spawned = NTHREADS
          /\ joined = NTHREADS
          /\ printed # NoValue \/ mainpc = "poison"

C17_Witness ==
    /\ strong = 0
    /\ mainpc = "exited"
    /\ NTHREADS >= 2
    /\ printed = Expected
    /\ printed >= 2

\* C18: monotonicity -- every step leaves the counter unchanged or raises it
\* by exactly 1, and two successive reads by the reader never decrease.
C18_Monotonic ==
    /\ [][val' = val \/ val' = val + 1]_vars
    /\ [][observed # NoValue => observed' >= observed]_vars

C18_Witness ==
    /\ variant = "atomic"
    /\ rpc = "idle"
    /\ observed >= 1
    /\ val >= observed + 1
    /\ \E t \in Workers : Waiting(t)

\* C19: the lock is held only for one increment -- in the mutex variant a
\* worker owns the guard exactly while it is inside one increment_counter
\* call, so once all workers returned normally the lock is free and
\* unpoisoned and main's final lock is granted at once.
C19_LockHeldPerIncrement ==
    variant = "mutex" =>
        /\ \A t \in Workers : holder = t <=> InIncrement(t)
        /\ (spawned = NTHREADS /\ \A t \in 1..NTHREADS : pc[t] = "done")
              => (holder \notin Workers /\ ~poisoned)
        /\ (mainpc = "read" /\ ~AnyFailed) => ENABLED MainLock

C19_Witness ==
    /\ variant = "mutex"
    /\ mainpc = "read"
    /\ NTHREADS >= 2
    /\ holder = NoHolder
    /\ ~poisoned
    /\ val >= 2
    /\ \A t \in 1..NTHREADS : pc[t] = "done"

====
